---- MODULE Spec2Model ----
(***************************************************************************)
(* SqlitePatternStore: the Domain > Category > Pattern hierarchy and the   *)
(* submissions table, with the store's create / update / delete / review   *)
(* methods.  better-sqlite3 is synchronous, so a method of the store is    *)
(* one action.  Tables are sets of rows, AUTOINCREMENT is the              *)
(* sqlite_sequence counter of each table, foreign keys are enforced        *)
(* (PRAGMA foreign_keys = ON).                                             *)
(***************************************************************************)
EXTENDS Integers, Sequences, FiniteSets, TLC

\* ---- bounds of the model ----
\* rows ever inserted in the four tables plus ticks of the clock
MaxEvents == 5
\* how many session tokens are ever issued
MaxTokens == 2

Slugs == {"a", "b"}

\* a nullable column / optional argument: <<>> is NULL (undefined), <<v>> is v
Null == <<>>
Some(v) == <<v>>

VARIABLES
    domains,      \* rows of table domains
    categories,   \* rows of table categories
    patterns,     \* rows of table patterns
    submissions,  \* rows of table submissions
    seq,          \* sqlite_sequence: largest rowid ever used, per table
    now,          \* the clock read by datetime('now')
    last,         \* the last call on the store: the method, and "ok" or the error thrown
    adminSecret,  \* process.env.ADMIN_SECRET of the HTTP server: Null when not set
    sessions,     \* the session tokens of auth.ts
    issued,       \* how many tokens randomUUID() has produced
    response,     \* the last response of the REST API: the route and the status
    inflight,     \* per connection to the database: the call it is in, between two statements
    thrown        \* the caller of the store: the ids whose acceptance it has seen throw

vars == <<domains, categories, patterns, submissions, seq, now, last,
          adminSecret, sessions, issued, response, inflight, thrown>>
hierarchy == <<domains, categories, patterns>>

\* what a call made directly on the store of this connection leaves alone
outside == <<adminSecret, sessions, issued, response, inflight, thrown>>

\* rows ever inserted in the hierarchy tables
rows == seq.domains + seq.categories + seq.patterns

\* what MaxEvents bounds
events == rows + seq.submissions + now

\* ---- errors: the messages the store throws ----
NotFound == {"DomainNotFound", "CategoryNotFound", "PatternNotFound", "SubmissionNotFound"}
Conflict == {"UniqueConstraint", "AlreadyReviewed"}
ConstraintFailed == {"CheckConstraint", "ForeignKeyConstraint"}

\* a call of method op that returned ("ok") or threw (the error)
Called(op, result) == [op |-> op, result |-> result]

\* ---- inputs ----
Decisions == {"accepted", "rejected"}

\* the values the calls of Next are made with
NewPattern == [label |-> "t1", description |-> "t2", intention |-> "t1", template |-> "t2"]
Proposed == [label |-> "t2", description |-> "t1", intention |-> "t2", template |-> "t1"]
NoChanges == [name |-> Null, description |-> Null]
NameChange == [name |-> Some("t2"), description |-> Null]
DescriptionChange == [name |-> Null, description |-> Some("t1")]
NoPatternChanges == [label |-> Null, description |-> Null, intention |-> Null,
                     template |-> Null]
LabelChange == [label |-> Some("t2"), description |-> Null, intention |-> Null,
                template |-> Null]

\* ---- schema: lookups, constraints and foreign-key actions ----

\* SELECT id FROM domains WHERE slug = ?
domainBySlug(slug) == {d \in domains : d.slug = slug}

\* SELECT c.id FROM categories c JOIN domains d ON c.domain_id = d.id
\* WHERE d.slug = ? AND c.slug = ?
categoryBySlugs(domainSlug, categorySlug) ==
    {c \in categories : /\ c.slug = categorySlug
                        /\ \E d \in domains : d.id = c.domain_id /\ d.slug = domainSlug}

\* setNullOnDelete as ON DELETE CASCADE would have it
setNullOnDeleteCascades(gone) ==
    {s \in submissions : s.target_pattern_id = Null \/ s.target_pattern_id[1] \notin gone}

\* ON DELETE SET NULL reaching the submissions that name a pattern still stored
setNullOnDeleteEveryTarget(gone) ==
    {IF gone # {} THEN [s EXCEPT !.target_pattern_id = Null] ELSE s : s \in submissions}

\* ON DELETE SET NULL that also puts the submission back to pending
setNullOnDeleteReopens(gone) ==
    {IF s.target_pattern_id # Null /\ s.target_pattern_id[1] \in gone
       THEN [s EXCEPT !.target_pattern_id = Null, !.status = "pending",
                      !.reviewed_at = Null]
       ELSE s : s \in submissions}

\* FOREIGN KEY (target_pattern_id) REFERENCES patterns(id) ON DELETE SET NULL
setNullOnDelete(gone) ==
    {IF s.target_pattern_id # Null /\ s.target_pattern_id[1] \in gone
       THEN [s EXCEPT !.target_pattern_id = Null]
       ELSE s : s \in submissions}

\* cascadeCategories without the cascade to patterns
cascadeCategoriesNoPatterns(goneCats) ==
    /\ categories' = {c \in categories : c.id \notin goneCats}
    /\ UNCHANGED <<patterns, submissions>>

\* FOREIGN KEY (category_id) REFERENCES categories(id) ON DELETE CASCADE
cascadeCategories(goneCats) ==
    LET gonePats == {p.id : p \in {q \in patterns : q.category_id \in goneCats}}
    IN /\ categories' = {c \in categories : c.id \notin goneCats}
       /\ patterns' = {p \in patterns : p.category_id \notin goneCats}
       /\ submissions' = setNullOnDelete(gonePats)

\* cascadeDomains taking the categories of every domain
cascadeDomainsAll(goneDoms) ==
    cascadeCategories({c.id : c \in categories})

\* FOREIGN KEY (domain_id) REFERENCES domains(id) ON DELETE CASCADE
cascadeDomains(goneDoms) ==
    cascadeCategories({c.id : c \in {x \in categories : x.domain_id \in goneDoms}})

\* ---- create methods ----

\* addDomain without UNIQUE on slug
addDomainNoUnique(slug, name, description) ==
    /\ domains' = domains \cup
          {[id |-> seq.domains + 1, slug |-> slug, name |-> name,
            description |-> description]}
    /\ seq' = [seq EXCEPT !.domains = @ + 1]
    /\ last' = Called("addDomain", "ok")
    /\ UNCHANGED <<categories, patterns, submissions, now>>

\* INSERT INTO domains: slug is UNIQUE
addDomain(slug, name, description) ==
    /\ IF domainBySlug(slug) # {}
         THEN /\ last' = Called("addDomain", "UniqueConstraint")
              /\ UNCHANGED <<domains, seq>>
         ELSE /\ domains' = domains \cup
                    {[id |-> seq.domains + 1, slug |-> slug, name |-> name,
                      description |-> description]}
              /\ seq' = [seq EXCEPT !.domains = @ + 1]
              /\ last' = Called("addDomain", "ok")
    /\ UNCHANGED <<categories, patterns, submissions, now>>

\* insertCategory with UNIQUE(slug) instead of UNIQUE(domain_id, slug)
insertCategoryUniqueSlug(domainId, slug, name, description) ==
    IF \E c \in categories : c.slug = slug
      THEN /\ last' = Called("addCategory", "UniqueConstraint")
           /\ UNCHANGED <<categories, seq>>
      ELSE /\ categories' = categories \cup
                 {[id |-> seq.categories + 1, domain_id |-> domainId, slug |-> slug,
                   name |-> name, description |-> description]}
           /\ seq' = [seq EXCEPT !.categories = @ + 1]
           /\ last' = Called("addCategory", "ok")

\* the INSERT of addCategory: UNIQUE(domain_id, slug)
insertCategory(domainId, slug, name, description) ==
    IF \E c \in categories : c.domain_id = domainId /\ c.slug = slug
      THEN /\ last' = Called("addCategory", "UniqueConstraint")
           /\ UNCHANGED <<categories, seq>>
      ELSE /\ categories' = categories \cup
                 {[id |-> seq.categories + 1, domain_id |-> domainId, slug |-> slug,
                   name |-> name, description |-> description]}
           /\ seq' = [seq EXCEPT !.categories = @ + 1]
           /\ last' = Called("addCategory", "ok")

addCategory(domainSlug, slug, name, description) ==
    /\ IF domainBySlug(domainSlug) = {}
         THEN /\ last' = Called("addCategory", "DomainNotFound")
              /\ UNCHANGED <<categories, seq>>
         ELSE insertCategory((CHOOSE d \in domainBySlug(domainSlug) : TRUE).id,
                             slug, name, description)
    /\ UNCHANGED <<domains, patterns, submissions, now>>

\* insertPattern on a rowid that is not AUTOINCREMENT: one more than the largest stored
insertPatternReusesRowid(domainSlug, categorySlug, pattern) ==
    /\ patterns' = patterns \cup
          {[id |-> IF patterns = {} THEN 1
                   ELSE (CHOOSE p \in patterns : \A q \in patterns : q.id <= p.id).id + 1,
            category_id |-> (CHOOSE c \in categoryBySlugs(domainSlug, categorySlug) : TRUE).id,
            label |-> pattern.label, description |-> pattern.description,
            intention |-> pattern.intention, template |-> pattern.template]}
    /\ seq' = [seq EXCEPT !.patterns = @ + 1]

\* the INSERT of addPattern, once the category is found
insertPattern(domainSlug, categorySlug, pattern) ==
    /\ patterns' = patterns \cup
          {[id |-> seq.patterns + 1,
            category_id |-> (CHOOSE c \in categoryBySlugs(domainSlug, categorySlug) : TRUE).id,
            label |-> pattern.label, description |-> pattern.description,
            intention |-> pattern.intention, template |-> pattern.template]}
    /\ seq' = [seq EXCEPT !.patterns = @ + 1]

addPattern(domainSlug, categorySlug, pattern) ==
    /\ IF categoryBySlugs(domainSlug, categorySlug) = {}
         THEN /\ last' = Called("addPattern", "CategoryNotFound")
              /\ UNCHANGED <<patterns, seq>>
         ELSE /\ insertPattern(domainSlug, categorySlug, pattern)
              /\ last' = Called("addPattern", "ok")
    /\ UNCHANGED <<domains, categories, submissions, now>>

\* ---- update methods ----

\* withChanges that blanks the columns not supplied
withChangesClears(row, changes) ==
    [row EXCEPT !.name = IF changes.name # Null THEN changes.name[1] ELSE "",
                !.description = IF changes.description # Null
                                  THEN changes.description[1] ELSE ""]

\* the SET clauses for name and description
withChanges(row, changes) ==
    [row EXCEPT !.name = IF changes.name # Null THEN changes.name[1] ELSE @,
                !.description = IF changes.description # Null
                                  THEN changes.description[1] ELSE @]

\* no SET clause returns early; UPDATE domains ... WHERE slug = ? changing no row throws
updateDomain(slug, changes) ==
    /\ IF changes.name = Null /\ changes.description = Null
         THEN /\ last' = Called("updateDomain", "ok")
              /\ UNCHANGED domains
         ELSE IF domainBySlug(slug) = {}
         THEN /\ last' = Called("updateDomain", "DomainNotFound")
              /\ UNCHANGED domains
         ELSE /\ domains' = {IF d.slug = slug THEN withChanges(d, changes) ELSE d
                               : d \in domains}
              /\ last' = Called("updateDomain", "ok")
    /\ UNCHANGED <<categories, patterns, submissions, seq, now>>

\* lookup first, then UPDATE categories SET ... WHERE id = ?
updateCategory(domainSlug, categorySlug, changes) ==
    /\ IF categoryBySlugs(domainSlug, categorySlug) = {}
         THEN /\ last' = Called("updateCategory", "CategoryNotFound")
              /\ UNCHANGED categories
         ELSE IF changes.name = Null /\ changes.description = Null
         THEN /\ last' = Called("updateCategory", "ok")
              /\ UNCHANGED categories
         ELSE /\ categories' =
                   {IF c \in categoryBySlugs(domainSlug, categorySlug)
                      THEN withChanges(c, changes) ELSE c : c \in categories}
              /\ last' = Called("updateCategory", "ok")
    /\ UNCHANGED <<domains, patterns, submissions, seq, now>>

\* the rows of patterns after UPDATE patterns SET ... WHERE id = ?
updatedPatterns(id, changes) ==
    {IF p.id = id
       THEN [p EXCEPT
               !.label = IF changes.label # Null THEN changes.label[1] ELSE @,
               !.description = IF changes.description # Null
                                 THEN changes.description[1] ELSE @,
               !.intention = IF changes.intention # Null THEN changes.intention[1] ELSE @,
               !.template = IF changes.template # Null THEN changes.template[1] ELSE @]
       ELSE p : p \in patterns}

\* how updatePattern ends: no SET clause returns early, no row changed throws
updatePatternOutcome(id, changes) ==
    IF changes = NoPatternChanges THEN "ok"
    ELSE IF \A p \in patterns : p.id # id THEN "PatternNotFound"
    ELSE "ok"

updatePattern(id, changes) ==
    /\ last' = Called("updatePattern", updatePatternOutcome(id, changes))
    /\ patterns' = IF changes = NoPatternChanges THEN patterns
                   ELSE updatedPatterns(id, changes)
    /\ UNCHANGED <<domains, categories, submissions, seq, now>>

\* ---- delete methods ----

\* DELETE FROM domains WHERE slug = ?  (cascades)
deleteDomain(slug) ==
    /\ IF domainBySlug(slug) = {}
         THEN /\ last' = Called("deleteDomain", "DomainNotFound")
              /\ UNCHANGED <<domains, categories, patterns, submissions>>
         ELSE /\ domains' = {d \in domains : d.slug # slug}
              /\ cascadeDomains({d.id : d \in domainBySlug(slug)})
              /\ last' = Called("deleteDomain", "ok")
    /\ UNCHANGED <<seq, now>>

\* deleteCategory that deletes what it finds and never throws
deleteCategoryIfExists(domainSlug, categorySlug) ==
    /\ cascadeCategories({c.id : c \in categoryBySlugs(domainSlug, categorySlug)})
    /\ last' = Called("deleteCategory", "ok")
    /\ UNCHANGED <<domains, seq, now>>

\* lookup, then DELETE FROM categories WHERE id = ?  (cascades)
deleteCategory(domainSlug, categorySlug) ==
    /\ IF categoryBySlugs(domainSlug, categorySlug) = {}
         THEN /\ last' = Called("deleteCategory", "CategoryNotFound")
              /\ UNCHANGED <<categories, patterns, submissions>>
         ELSE /\ cascadeCategories({c.id : c \in categoryBySlugs(domainSlug, categorySlug)})
              /\ last' = Called("deleteCategory", "ok")
    /\ UNCHANGED <<domains, seq, now>>

\* deletePattern under a foreign key that restricts: a referenced pattern stays
deletePatternRestricted(id) ==
    /\ IF \A p \in patterns : p.id # id
         THEN /\ last' = Called("deletePattern", "PatternNotFound")
              /\ UNCHANGED <<patterns, submissions>>
         ELSE IF \E s \in submissions : s.target_pattern_id = Some(id)
         THEN /\ last' = Called("deletePattern", "ForeignKeyConstraint")
              /\ UNCHANGED <<patterns, submissions>>
         ELSE /\ patterns' = {p \in patterns : p.id # id}
              /\ UNCHANGED submissions
              /\ last' = Called("deletePattern", "ok")
    /\ UNCHANGED <<domains, categories, seq, now>>

\* DELETE FROM patterns WHERE id = ?
deletePattern(id) ==
    /\ IF \A p \in patterns : p.id # id
         THEN /\ last' = Called("deletePattern", "PatternNotFound")
              /\ UNCHANGED <<patterns, submissions>>
         ELSE /\ patterns' = {p \in patterns : p.id # id}
              /\ submissions' = setNullOnDelete({id})
              /\ last' = Called("deletePattern", "ok")
    /\ UNCHANGED <<domains, categories, seq, now>>

\* ---- read methods ----

\* the position of a slug in ORDER BY slug
slugRank(slug) == CHOOSE i \in 1..2 : <<"a", "b">>[i] = slug

\* rows as ORDER BY slug returns them
RECURSIVE orderBySlug(_)
orderBySlug(rs) ==
    IF rs = {} THEN <<>>
    ELSE LET first == CHOOSE r \in rs : \A o \in rs : slugRank(r.slug) <= slugRank(o.slug)
         IN <<first>> \o orderBySlug(rs \ {first})

\* rows as ORDER BY id returns them
RECURSIVE orderById(_)
orderById(rs) ==
    IF rs = {} THEN <<>>
    ELSE LET first == CHOOSE r \in rs : \A o \in rs : r.id <= o.id
         IN <<first>> \o orderById(rs \ {first})

\* SELECT ... FROM patterns WHERE category_id = ? ORDER BY id
getPatternsForCategoryId(categoryId) ==
    orderById({p \in patterns : p.category_id = categoryId})

\* SELECT ... FROM categories WHERE domain_id = ? ORDER BY slug, each with its patterns
getCategoriesForDomainId(domainId) ==
    LET cs == orderBySlug({c \in categories : c.domain_id = domainId})
    IN [i \in 1..Len(cs) |->
          [slug |-> cs[i].slug, name |-> cs[i].name, description |-> cs[i].description,
           patterns |-> getPatternsForCategoryId(cs[i].id)]]

\* getDomain that falls back on any domain stored
getDomainOrAny(slug) ==
    IF domains = {} THEN Null
    ELSE LET row == IF domainBySlug(slug) # {} THEN CHOOSE d \in domainBySlug(slug) : TRUE
                    ELSE CHOOSE d \in domains : TRUE
         IN Some([slug |-> row.slug, name |-> row.name, description |-> row.description,
                  categories |-> getCategoriesForDomainId(row.id)])

\* the Domain with its categories, Null (undefined) for an unknown slug
getDomain(slug) ==
    IF domainBySlug(slug) = {} THEN Null
    ELSE LET row == CHOOSE d \in domainBySlug(slug) : TRUE
         IN Some([slug |-> row.slug, name |-> row.name, description |-> row.description,
                  categories |-> getCategoriesForDomainId(row.id)])

getCategories(domainSlug) ==
    IF domainBySlug(domainSlug) = {} THEN <<>>
    ELSE getCategoriesForDomainId((CHOOSE d \in domainBySlug(domainSlug) : TRUE).id)

\* the patterns of one domain's categories, ORDER BY c.slug, p.id
RECURSIVE patternsOfCategories(_)
patternsOfCategories(cs) ==
    IF cs = <<>> THEN <<>>
    ELSE getPatternsForCategoryId(Head(cs).id) \o patternsOfCategories(Tail(cs))

\* getPatternsWithIds without WHERE c.domain_id = ?
getPatternsWithIdsOfAnyDomain(domainSlug, categorySlugs) ==
    IF categorySlugs = {} THEN <<>>
    ELSE IF domainBySlug(domainSlug) = {} THEN <<>>
    ELSE patternsOfCategories(orderBySlug({c \in categories : c.slug \in categorySlugs}))

\* categorySlugs is the set of the slugs in the array passed
getPatternsWithIds(domainSlug, categorySlugs) ==
    IF categorySlugs = {} THEN <<>>
    ELSE IF domainBySlug(domainSlug) = {} THEN <<>>
    ELSE LET domainId == (CHOOSE d \in domainBySlug(domainSlug) : TRUE).id
         IN patternsOfCategories(orderBySlug(
                {c \in categories : c.domain_id = domainId /\ c.slug \in categorySlugs}))

\* getPatterns: the same rows without the id column
getPatterns(domainSlug, categorySlugs) ==
    LET ps == getPatternsWithIds(domainSlug, categorySlugs)
    IN [i \in 1..Len(ps) |->
          [label |-> ps[i].label, description |-> ps[i].description,
           intention |-> ps[i].intention, template |-> ps[i].template]]

\* SELECT ... FROM domains ORDER BY slug, each with its categories
getDomains ==
    LET ds == orderBySlug(domains)
    IN [i \in 1..Len(ds) |->
          [slug |-> ds[i].slug, name |-> ds[i].name, description |-> ds[i].description,
           categories |-> getCategoriesForDomainId(ds[i].id)]]

\* ---- the tools of the MCP server (tools.ts) ----

\* what a call of a tool ends in: a result with content, an error result, or a throw
ToolResult(content) == [isError |-> FALSE, thrown |-> FALSE, content |-> content]
ToolError == [isError |-> TRUE, thrown |-> FALSE, content |-> <<>>]
ToolThrown == [isError |-> FALSE, thrown |-> TRUE, content |-> <<>>]

\* name, slug and description of each row, in the order given
listed(rs) ==
    [i \in 1..Len(rs) |->
       [name |-> rs[i].name, slug |-> rs[i].slug, description |-> rs[i].description]]

\* the discover handler: the results a call can end in. domain is Null when the
\* argument is left out; getDomain(undefined) binds undefined to slug = ?, which the
\* driver refuses with a TypeError or, bound as NULL, matches no row
createDiscoverHandler(domain) ==
    IF domain = Null THEN {ToolThrown, ToolError}
    ELSE IF getDomain(domain[1]) = Null THEN {ToolError}
    ELSE {ToolResult(listed(getDomain(domain[1])[1].categories))}

\* ---- submissions ----

\* SubmissionInput: the optional arguments are Null when not given
SubmissionInput(type, targetPatternId, domainSlug, categorySlug, content, source) ==
    [type |-> type, targetPatternId |-> targetPatternId, domainSlug |-> domainSlug,
     categorySlug |-> categorySlug, label |-> content.label,
     description |-> content.description, intention |-> content.intention,
     template |-> content.template, source |-> source]

\* addSubmissionOutcome that looks a 'new' submission's category up
addSubmissionOutcomeChecksCategory(input) ==
    IF input.type \notin {"new", "modify"} THEN "CheckConstraint"
    ELSE IF /\ input.targetPatternId # Null
            /\ \A p \in patterns : p.id # input.targetPatternId[1] THEN "ForeignKeyConstraint"
    ELSE IF /\ input.type = "new" /\ input.domainSlug # Null /\ input.categorySlug # Null
            /\ categoryBySlugs(input.domainSlug[1], input.categorySlug[1]) = {}
      THEN "CategoryNotFound"
    ELSE "ok"

\* addSubmissionOutcome with foreign_keys off
addSubmissionOutcomeNoForeignKey(input) ==
    IF input.type \notin {"new", "modify"} THEN "CheckConstraint" ELSE "ok"

\* how the INSERT of addSubmission ends: CHECK(type IN ...), then the foreign key
addSubmissionOutcome(input) ==
    IF input.type \notin {"new", "modify"} THEN "CheckConstraint"
    ELSE IF /\ input.targetPatternId # Null
            /\ \A p \in patterns : p.id # input.targetPatternId[1] THEN "ForeignKeyConstraint"
    ELSE "ok"

addSubmission(input) ==
    /\ last' = Called("addSubmission", addSubmissionOutcome(input))
    /\ IF addSubmissionOutcome(input) = "ok"
         THEN /\ submissions' = submissions \cup
                    {[id |-> seq.submissions + 1, type |-> input.type,
                      status |-> "pending",
                      target_pattern_id |-> input.targetPatternId,
                      domain_slug |-> input.domainSlug,
                      category_slug |-> input.categorySlug,
                      label |-> input.label, description |-> input.description,
                      intention |-> input.intention, template |-> input.template,
                      source |-> input.source,
                      submitted_at |-> now, reviewed_at |-> Null]}
              /\ seq' = [seq EXCEPT !.submissions = @ + 1]
         ELSE UNCHANGED <<submissions, seq>>
    /\ UNCHANGED <<domains, categories, patterns, now>>

\* result.lastInsertRowid after the INSERT of addSubmission: the id it returns
lastInsertRowid == seq.submissions

\* SELECT ... FROM submissions WHERE id = ?  (no row or one row)
getSubmission(id) == {s \in submissions : s.id = id}

\* rows as ORDER BY id DESC returns them
RECURSIVE orderByIdDesc(_)
orderByIdDesc(rs) ==
    IF rs = {} THEN <<>>
    ELSE LET first == CHOOSE r \in rs : \A o \in rs : r.id >= o.id
         IN <<first>> \o orderByIdDesc(rs \ {first})

\* getSubmissions with ORDER BY id
getSubmissionsOldestFirst(status) ==
    IF status # Null
      THEN orderById({s \in submissions : s.status = status[1]})
      ELSE orderById(submissions)

\* SELECT ... FROM submissions [WHERE status = ?] ORDER BY id DESC;
\* status is Null when the argument is left out
getSubmissions(status) ==
    IF status # Null
      THEN orderByIdDesc({s \in submissions : s.status = status[1]})
      ELSE orderByIdDesc(submissions)

\* contentOf that leaves the template out
contentOfNoTemplate(sub) ==
    [label |-> sub.label, description |-> sub.description, intention |-> sub.intention,
     template |-> ""]

\* the Pattern an acceptance passes on
contentOf(sub) ==
    [label |-> sub.label, description |-> sub.description, intention |-> sub.intention,
     template |-> sub.template]

\* changesOf that passes the label only
changesOfLabelOnly(sub) ==
    [label |-> Some(sub.label), description |-> Null, intention |-> Null,
     template |-> Null]

\* the changes an accepted 'modify' submission passes to updatePattern
changesOf(sub) ==
    [label |-> Some(sub.label), description |-> Some(sub.description),
     intention |-> Some(sub.intention), template |-> Some(sub.template)]

\* how the hierarchy call of an acceptance ends: "ok" or the error the callee throws
acceptOutcome(sub) ==
    IF sub.type = "new"
      THEN IF sub.domain_slug = Null \/ sub.category_slug = Null THEN "CategoryNotFound"
           ELSE IF categoryBySlugs(sub.domain_slug[1], sub.category_slug[1]) = {}
                  THEN "CategoryNotFound" ELSE "ok"
    ELSE IF sub.type = "modify" /\ sub.target_pattern_id # Null
      THEN updatePatternOutcome(sub.target_pattern_id[1], changesOf(sub))
    ELSE "ok"

\* markReviewed without the WHERE id = ?
markReviewedEveryPending(id, decision) ==
    {IF s.status = "pending" THEN [s EXCEPT !.status = decision, !.reviewed_at = Some(now)]
     ELSE s : s \in submissions}

\* markReviewed without reviewed_at
markReviewedNoTimestamp(id, decision) ==
    {IF s.id = id THEN [s EXCEPT !.status = decision] ELSE s : s \in submissions}

\* UPDATE submissions SET status = ?, reviewed_at = datetime('now') WHERE id = ?
markReviewed(id, decision) ==
    {IF s.id = id THEN [s EXCEPT !.status = decision, !.reviewed_at = Some(now)]
     ELSE s : s \in submissions}

\* reviewOutcome without the check of the status
reviewOutcomeNoStatusCheck(id, decision) ==
    IF getSubmission(id) = {} THEN "SubmissionNotFound"
    ELSE IF decision = "accepted"
      THEN acceptOutcome(CHOOSE s \in getSubmission(id) : TRUE)
    ELSE "ok"

\* reviewOutcome that looks for the target whatever the decision
reviewOutcomeTargetForAnyDecision(id, decision) ==
    IF getSubmission(id) = {} THEN "SubmissionNotFound"
    ELSE IF (CHOOSE s \in getSubmission(id) : TRUE).status # "pending"
      THEN "AlreadyReviewed"
    ELSE acceptOutcome(CHOOSE s \in getSubmission(id) : TRUE)

\* how reviewSubmission ends
reviewOutcome(id, decision) ==
    IF getSubmission(id) = {} THEN "SubmissionNotFound"
    ELSE IF (CHOOSE s \in getSubmission(id) : TRUE).status # "pending"
      THEN "AlreadyReviewed"
    ELSE IF decision = "accepted"
      THEN acceptOutcome(CHOOSE s \in getSubmission(id) : TRUE)
    ELSE "ok"

\* the addPattern / updatePattern call of an acceptance that does not throw
applyAccepted(sub) ==
    IF sub.type = "new"
      THEN insertPattern(sub.domain_slug[1], sub.category_slug[1], contentOf(sub))
    ELSE IF sub.type = "modify" /\ sub.target_pattern_id # Null
      THEN /\ patterns' = updatedPatterns(sub.target_pattern_id[1], changesOf(sub))
           /\ UNCHANGED seq
    ELSE UNCHANGED <<patterns, seq>>

\* reviewSubmission with the status updated before the hierarchy call
reviewSubmissionStatusFirst(id, decision) ==
    /\ last' = Called("reviewSubmission", reviewOutcome(id, decision))
    /\ IF reviewOutcome(id, decision) \in {"SubmissionNotFound", "AlreadyReviewed"}
         THEN UNCHANGED <<patterns, submissions, seq>>
         ELSE /\ IF decision = "accepted" /\ reviewOutcome(id, decision) = "ok"
                   THEN applyAccepted(CHOOSE s \in getSubmission(id) : TRUE)
                   ELSE UNCHANGED <<patterns, seq>>
              /\ submissions' = markReviewed(id, decision)
    /\ UNCHANGED <<domains, categories, now>>

\* reviewSubmission that closes the submission when the hierarchy call throws
reviewSubmissionClosesOnThrow(id, decision) ==
    /\ last' = Called("reviewSubmission", reviewOutcome(id, decision))
    /\ IF reviewOutcome(id, decision) \in {"SubmissionNotFound", "AlreadyReviewed"}
         THEN UNCHANGED <<patterns, submissions, seq>>
         ELSE IF reviewOutcome(id, decision) # "ok"
           THEN /\ submissions' = markReviewed(id, "rejected")
                /\ UNCHANGED <<patterns, seq>>
         ELSE /\ IF decision = "accepted"
                   THEN applyAccepted(CHOOSE s \in getSubmission(id) : TRUE)
                   ELSE UNCHANGED <<patterns, seq>>
              /\ submissions' = markReviewed(id, decision)
    /\ UNCHANGED <<domains, categories, now>>

reviewSubmission(id, decision) ==
    /\ last' = Called("reviewSubmission", reviewOutcome(id, decision))
    /\ IF reviewOutcome(id, decision) # "ok"
         THEN UNCHANGED <<patterns, submissions, seq>>
         ELSE /\ IF decision = "accepted"
                   THEN applyAccepted(CHOOSE s \in getSubmission(id) : TRUE)
                   ELSE UNCHANGED <<patterns, seq>>
              /\ submissions' = markReviewed(id, decision)
    /\ UNCHANGED <<domains, categories, now>>

\* ---- the impact preview ----

\* a name derived from a slug by title-casing its words
slugToName(slug) == IF slug = "a" THEN "A" ELSE IF slug = "b" THEN "B" ELSE slug

\* the node an acceptance would create, as the preview reports it
derived(slug) == Some([slug |-> slug, name |-> slugToName(slug)])

NoImpact == [newDomain |-> Null, newCategory |-> Null]

\* getSubmissionImpact that does not look at the status
getSubmissionImpactOfAnyStatus(id) ==
    IF getSubmission(id) = {} THEN NoImpact
    ELSE LET sub == CHOOSE s \in getSubmission(id) : TRUE
         IN IF sub.type # "new" \/ sub.domain_slug = Null \/ sub.category_slug = Null
              THEN NoImpact
              ELSE [newDomain |-> IF domainBySlug(sub.domain_slug[1]) = {}
                                    THEN derived(sub.domain_slug[1]) ELSE Null,
                    newCategory |->
                       IF categoryBySlugs(sub.domain_slug[1], sub.category_slug[1]) = {}
                         THEN derived(sub.category_slug[1]) ELSE Null]

\* getSubmissionImpact(id): for a pending 'new' submission, the domain and the
\* category that do not exist now; nothing for any other submission
getSubmissionImpact(id) ==
    IF getSubmission(id) = {} THEN NoImpact
    ELSE LET sub == CHOOSE s \in getSubmission(id) : TRUE
         IN IF \/ sub.type # "new" \/ sub.status # "pending"
               \/ sub.domain_slug = Null \/ sub.category_slug = Null
              THEN NoImpact
              ELSE [newDomain |-> IF domainBySlug(sub.domain_slug[1]) = {}
                                    THEN derived(sub.domain_slug[1]) ELSE Null,
                    newCategory |->
                       IF categoryBySlugs(sub.domain_slug[1], sub.category_slug[1]) = {}
                         THEN derived(sub.category_slug[1]) ELSE Null]

\* ---- admin sessions (auth.ts) ----

\* what ADMIN_SECRET may hold when the server starts: unset, empty, or a secret
AdminSecrets == {Null, Some(""), Some("s1")}
\* the secrets a login request may carry; a missing one is sent on as ""
Secrets == {"", "s1", "s2"}
\* the session cookie of a request: none, or any token, issued or not
Cookies == {Null} \cup {Some(t) : t \in 1..MaxTokens}

auth == <<adminSecret, sessions, issued>>
store == <<domains, categories, patterns, submissions, seq, now, last>>

\* !!process.env.ADMIN_SECRET
isAdminConfigured == adminSecret # Null /\ adminSecret[1] # ""

\* randomUUID(): a token that was never issued before
randomUUID == issued + 1

\* login that only compares the secret with ADMIN_SECRET, unset read as ""
loginComparesOnly(secret) ==
    IF secret # (IF adminSecret = Null THEN "" ELSE adminSecret[1])
      THEN Null ELSE Some(randomUUID)

\* login(secret): the token it returns, or null
login(secret) ==
    IF adminSecret = Null \/ adminSecret[1] = "" \/ secret # adminSecret[1]
      THEN Null ELSE Some(randomUUID)

\* logout that leaves the session in place
logoutKeeps(token) == sessions

\* logout(token): the sessions it leaves
logout(token) == sessions \ {token}

isValidSession(token) == token # Null /\ token[1] \in sessions

\* authStatus: req.isAdmin, from the session cookie; it never blocks
authStatus(cookie) == isValidSession(cookie)

\* requireAdmin that lets every request through
requireAdminPasses(isAdmin) == TRUE

\* requireAdmin: whether the request goes on to the handler
requireAdmin(isAdmin) == isAdmin

\* ---- the REST API (api.ts) ----

Responded(route, status, isAdmin) == [route |-> route, status |-> status, isAdmin |-> isAdmin]

\* the status of a route's catch block: "not found" 404, its conflicts 409, else 500
statusOf(result, success, conflicts) ==
    IF result = "ok" THEN success
    ELSE IF result \in conflicts THEN 409
    ELSE IF result \in NotFound THEN 404
    ELSE 500

\* a request that never reaches the store
refused(route, status, cookie) ==
    /\ response' = Responded(route, status, authStatus(cookie))
    /\ UNCHANGED <<store, auth, inflight, thrown>>

\* the response to a request that called the store
answered(route, success, conflicts, cookie) ==
    /\ response' = Responded(route, statusOf(last'.result, success, conflicts),
                             authStatus(cookie))
    /\ UNCHANGED <<auth, inflight, thrown>>

GetAuthStatus(cookie) == refused("GET /auth/status", 200, cookie)

PostLogin(cookie, secret) ==
    IF ~isAdminConfigured \/ login(secret) = Null
      THEN refused("POST /auth/login", 401, cookie)
      ELSE /\ issued < MaxTokens
           /\ sessions' = sessions \cup {login(secret)[1]}
           /\ issued' = login(secret)[1]
           /\ response' = Responded("POST /auth/login", 200, authStatus(cookie))
           /\ UNCHANGED <<store, adminSecret, inflight, thrown>>

PostLogout(cookie) ==
    /\ sessions' = IF cookie # Null THEN logout(cookie[1]) ELSE sessions
    /\ response' = Responded("POST /auth/logout", 200, authStatus(cookie))
    /\ UNCHANGED <<store, adminSecret, issued, inflight, thrown>>

PostSubmissions(cookie, body, complete) ==
    IF ~complete \/ body.type \notin {"new", "modify"}
      THEN refused("POST /submissions", 400, cookie)
      ELSE /\ addSubmission(body)
           /\ answered("POST /submissions", 201, {}, cookie)

GetSubmissions(cookie) ==
    IF ~requireAdmin(authStatus(cookie))
      THEN refused("GET /submissions", 401, cookie)
      ELSE refused("GET /submissions", 200, cookie)

PostReview(cookie, id, decision) ==
    IF ~requireAdmin(authStatus(cookie))
      THEN refused("POST /submissions/:id/review", 401, cookie)
      ELSE IF decision \notin Decisions
      THEN refused("POST /submissions/:id/review", 400, cookie)
      ELSE /\ reviewSubmission(id, decision)
           /\ answered("POST /submissions/:id/review", 200, {"AlreadyReviewed"}, cookie)

\* complete: whether the body has every required field
PostDomains(cookie, slug, complete) ==
    IF ~complete THEN refused("POST /domains", 400, cookie)
    ELSE /\ addDomain(slug, "t1", "t2")
         /\ answered("POST /domains", 201, {"UniqueConstraint"}, cookie)

PutDomain(cookie, slug, changes) ==
    updateDomain(slug, changes) /\ answered("PUT /domains/:slug", 200, {}, cookie)

DeleteDomain(cookie, slug) ==
    deleteDomain(slug) /\ answered("DELETE /domains/:slug", 200, {}, cookie)

PostCategories(cookie, domainSlug, slug, complete) ==
    IF ~complete THEN refused("POST /domains/:slug/categories", 400, cookie)
    ELSE /\ addCategory(domainSlug, slug, "t1", "t2")
         /\ answered("POST /domains/:slug/categories", 201, {}, cookie)

PutCategory(cookie, domainSlug, slug, changes) ==
    /\ updateCategory(domainSlug, slug, changes)
    /\ answered("PUT /domains/:slug/categories/:catSlug", 200, {}, cookie)

DeleteCategory(cookie, domainSlug, slug) ==
    /\ deleteCategory(domainSlug, slug)
    /\ answered("DELETE /domains/:slug/categories/:catSlug", 200, {}, cookie)

PostPatterns(cookie, domainSlug, categorySlug, complete) ==
    IF ~complete
      THEN refused("POST /domains/:slug/categories/:catSlug/patterns", 400, cookie)
      ELSE /\ addPattern(domainSlug, categorySlug, NewPattern)
           /\ answered("POST /domains/:slug/categories/:catSlug/patterns", 201, {}, cookie)

PutPattern(cookie, id, changes) ==
    updatePattern(id, changes) /\ answered("PUT /patterns/:id", 200, {}, cookie)

DeletePattern(cookie, id) ==
    deletePattern(id) /\ answered("DELETE /patterns/:id", 200, {}, cookie)

\* ---- two connections to the same database, statement by statement ----

\* the processes that open patterns.db: the HTTP server and the stdio server
Conns == {1, 2}

\* a connection that is in no call
Idle == [pc |-> "idle"]

idle(c) == inflight[c].pc = "idle"

\* the connection goes on to its next statement, or returns
become(c, call) == inflight' = [inflight EXCEPT ![c] = call]

\* no review goes on after this call
NoReview == [id |-> 0, decision |-> "none"]

\* a foreign key that is not enforced
referencesUnchecked(id, parents) == TRUE

\* pragma foreign_keys = ON: the parent row of an inserted row must be there
references(id, parents) == \E r \in parents : r.id = id

\* a method that is one statement, run by a connection that is in no call
statement(c, call) == idle(c) /\ call /\ UNCHANGED inflight

\* addCategory, first statement: SELECT id FROM domains WHERE slug = ?
beginAddCategory(c, domainSlug, slug) ==
    /\ idle(c)
    /\ IF domainBySlug(domainSlug) = {}
         THEN last' = Called("addCategory", "DomainNotFound") /\ UNCHANGED inflight
         ELSE /\ become(c, [pc |-> "insertCategory", slug |-> slug,
                            parent |-> (CHOOSE d \in domainBySlug(domainSlug) : TRUE).id])
              /\ UNCHANGED last
    /\ UNCHANGED <<domains, categories, patterns, submissions, seq, now>>

\* addCategory, second statement: INSERT INTO categories
endAddCategory(c) ==
    /\ inflight[c].pc = "insertCategory"
    /\ IF references(inflight[c].parent, domains)
         THEN insertCategory(inflight[c].parent, inflight[c].slug, "t1", "t2")
         ELSE /\ last' = Called("addCategory", "ForeignKeyConstraint")
              /\ UNCHANGED <<categories, seq>>
    /\ become(c, Idle)
    /\ UNCHANGED <<domains, patterns, submissions, now>>

\* addPattern, first statement: SELECT c.id FROM categories c JOIN domains d ...
lookupCategory(c, domainSlug, categorySlug, pattern, method, review) ==
    /\ IF domainSlug = Null \/ categorySlug = Null
            \/ categoryBySlugs(domainSlug[1], categorySlug[1]) = {}
         THEN last' = Called(method, "CategoryNotFound") /\ become(c, Idle)
         ELSE /\ become(c, [pc |-> "insertPattern", pattern |-> pattern,
                            parent |-> (CHOOSE r \in categoryBySlugs(domainSlug[1],
                                                                    categorySlug[1]) : TRUE).id,
                            method |-> method, review |-> review])
              /\ UNCHANGED last
    /\ UNCHANGED <<domains, categories, patterns, submissions, seq, now>>

beginAddPattern(c, domainSlug, categorySlug) ==
    /\ idle(c)
    /\ lookupCategory(c, Some(domainSlug), Some(categorySlug), NewPattern, "addPattern",
                      NoReview)

\* addPattern, second statement: INSERT INTO patterns; reviewSubmission goes on
endAddPattern(c) ==
    /\ inflight[c].pc = "insertPattern"
    /\ IF ~references(inflight[c].parent, categories)
         THEN /\ last' = Called(inflight[c].method, "ForeignKeyConstraint")
              /\ become(c, Idle)
              /\ UNCHANGED <<patterns, seq>>
         ELSE /\ patterns' = patterns \cup
                    {[id |-> seq.patterns + 1, category_id |-> inflight[c].parent,
                      label |-> inflight[c].pattern.label,
                      description |-> inflight[c].pattern.description,
                      intention |-> inflight[c].pattern.intention,
                      template |-> inflight[c].pattern.template]}
              /\ seq' = [seq EXCEPT !.patterns = @ + 1]
              /\ IF inflight[c].review = NoReview
                    THEN last' = Called("addPattern", "ok") /\ become(c, Idle)
                    ELSE /\ become(c, [pc |-> "markReviewed", review |-> inflight[c].review,
                                       applied |-> TRUE])
                         /\ UNCHANGED last
    /\ UNCHANGED <<domains, categories, submissions, now>>

\* deleteCategory, first statement: SELECT c.id FROM categories c JOIN domains d ...
beginDeleteCategory(c, domainSlug, categorySlug) ==
    /\ idle(c)
    /\ IF categoryBySlugs(domainSlug, categorySlug) = {}
         THEN last' = Called("deleteCategory", "CategoryNotFound") /\ UNCHANGED inflight
         ELSE /\ become(c, [pc |-> "deleteCategory",
                            row |-> (CHOOSE r \in categoryBySlugs(domainSlug,
                                                                 categorySlug) : TRUE).id])
              /\ UNCHANGED last
    /\ UNCHANGED <<domains, categories, patterns, submissions, seq, now>>

\* deleteCategory, second statement: DELETE FROM categories WHERE id = ?
endDeleteCategory(c) ==
    /\ inflight[c].pc = "deleteCategory"
    /\ cascadeCategories({inflight[c].row})
    /\ last' = Called("deleteCategory", "ok")
    /\ become(c, Idle)
    /\ UNCHANGED <<domains, seq, now>>

\* reviewSubmission, first statement: getSubmission(id), and the checks of what it read
beginReview(c, id, decision) ==
    /\ idle(c)
    /\ IF getSubmission(id) = {}
         THEN last' = Called("reviewSubmission", "SubmissionNotFound") /\ UNCHANGED inflight
         ELSE LET sub == CHOOSE s \in getSubmission(id) : TRUE
                  review == [id |-> id, decision |-> decision]
              IN IF sub.status # "pending"
                   THEN /\ last' = Called("reviewSubmission", "AlreadyReviewed")
                        /\ UNCHANGED inflight
                   ELSE /\ UNCHANGED last
                        /\ IF decision = "accepted" /\ sub.type = "new"
                             THEN become(c, [pc |-> "lookupCategory", sub |-> sub,
                                             review |-> review])
                           ELSE IF /\ decision = "accepted" /\ sub.type = "modify"
                                   /\ sub.target_pattern_id # Null
                             THEN become(c, [pc |-> "updatePattern", sub |-> sub,
                                             review |-> review])
                           ELSE become(c, [pc |-> "markReviewed", review |-> review,
                                           applied |-> FALSE])
    /\ UNCHANGED <<domains, categories, patterns, submissions, seq, now>>

\* reviewSubmission of a 'new' submission: the first statement of its addPattern
reviewLookup(c) ==
    /\ inflight[c].pc = "lookupCategory"
    /\ lookupCategory(c, inflight[c].sub.domain_slug, inflight[c].sub.category_slug,
                      contentOf(inflight[c].sub), "reviewSubmission", inflight[c].review)

\* reviewSubmission of a 'modify' submission: the UPDATE of its updatePattern
reviewUpdatePattern(c) ==
    /\ inflight[c].pc = "updatePattern"
    /\ IF \A p \in patterns : p.id # inflight[c].sub.target_pattern_id[1]
         THEN /\ last' = Called("reviewSubmission", "PatternNotFound")
              /\ become(c, Idle)
              /\ UNCHANGED patterns
         ELSE /\ patterns' = updatedPatterns(inflight[c].sub.target_pattern_id[1],
                                             changesOf(inflight[c].sub))
              /\ become(c, [pc |-> "markReviewed", review |-> inflight[c].review,
                             applied |-> TRUE])
              /\ UNCHANGED last
    /\ UNCHANGED <<domains, categories, submissions, seq, now>>

\* reviewSubmission, last statement: UPDATE submissions SET status = ?, reviewed_at = ...
reviewMark(c) ==
    /\ inflight[c].pc = "markReviewed"
    /\ submissions' = markReviewed(inflight[c].review.id, inflight[c].review.decision)
    /\ last' = Called("reviewSubmission", "ok")
    /\ become(c, Idle)
    /\ UNCHANGED <<domains, categories, patterns, seq, now>>

\* ---- the rest ----

\* initialize with CREATE TABLE in place of CREATE TABLE IF NOT EXISTS
initializeCreateTable ==
    /\ last' = Called("initialize", "TableExists")
    /\ UNCHANGED <<domains, categories, patterns, submissions, seq, now>>

\* CREATE TABLE IF NOT EXISTS ...: nothing to do on an initialized store
initialize ==
    /\ last' = Called("initialize", "ok")
    /\ UNCHANGED <<domains, categories, patterns, submissions, seq, now>>

\* time passes between calls
Tick ==
    /\ events < MaxEvents
    /\ now' = now + 1
    /\ UNCHANGED <<domains, categories, patterns, submissions, seq, last>>

\* a new store after initialize()
Init ==
    /\ domains = {}
    /\ categories = {}
    /\ patterns = {}
    /\ submissions = {}
    /\ seq = [domains |-> 0, categories |-> 0, patterns |-> 0, submissions |-> 0]
    /\ now = 0
    /\ last = Called("initialize", "ok")
    /\ adminSecret = Null
    /\ sessions = {}
    /\ issued = 0
    /\ response = Responded("none", 0, FALSE)
    /\ inflight = [c \in Conns |-> Idle]
    /\ thrown = {}

\* the ids a call may name: the ones ever assigned and the next one
PatternIds == 1..(seq.patterns + 1)
SubmissionIds == 1..(seq.submissions + 1)

SubmissionInputs ==
    {SubmissionInput("new", Null, Some("a"), Some("a"), Proposed, Null)}
    \cup {SubmissionInput("modify", Some(t), Null, Null, Proposed, Null) : t \in PatternIds}
    \cup {SubmissionInput("other", Null, Null, Null, Proposed, Null)}

Next ==
    \/ \E s \in Slugs : addDomain(s, "t1", "t2") /\ events' <= MaxEvents /\ UNCHANGED outside
    \/ \E ds \in Slugs, s \in Slugs : addCategory(ds, s, "t1", "t2")
          /\ events' <= MaxEvents /\ UNCHANGED outside
    \/ \E ds \in Slugs, cs \in Slugs : addPattern(ds, cs, NewPattern)
          /\ events' <= MaxEvents /\ UNCHANGED outside
    \/ \E ch \in {NoChanges, NameChange} : updateDomain("a", ch) /\ UNCHANGED outside
    \/ \E ch \in {NoChanges, DescriptionChange} : updateCategory("a", "a", ch) /\ UNCHANGED outside
    \/ \E ch \in {NoPatternChanges, LabelChange} : updatePattern(1, ch) /\ UNCHANGED outside
    \/ \E s \in Slugs : deleteDomain(s) /\ UNCHANGED outside
    \/ \E ds \in Slugs, s \in Slugs : deleteCategory(ds, s) /\ UNCHANGED outside
    \/ \E id \in PatternIds : deletePattern(id) /\ UNCHANGED outside
    \/ \E input \in SubmissionInputs : addSubmission(input)
          /\ events' <= MaxEvents /\ UNCHANGED outside
    \/ \E id \in SubmissionIds, d \in Decisions :
          reviewSubmission(id, d) /\ events' <= MaxEvents /\ UNCHANGED outside
    \/ initialize /\ UNCHANGED outside
    \/ Tick /\ UNCHANGED outside

Spec == Init /\ [][Next]_vars

\* ---- the HTTP server: the REST API over the store, on a one-branch hierarchy ----

InitApi ==
    /\ domains = {}
    /\ categories = {}
    /\ patterns = {}
    /\ submissions = {}
    /\ seq = [domains |-> 0, categories |-> 0, patterns |-> 0, submissions |-> 0]
    /\ now = 0
    /\ last = Called("initialize", "ok")
    /\ adminSecret \in AdminSecrets
    /\ sessions = {}
    /\ issued = 0
    /\ response = Responded("none", 0, FALSE)
    /\ inflight = [c \in Conns |-> Idle]
    /\ thrown = {}

\* the request bodies of POST /submissions
Bodies ==
    {SubmissionInput("new", Null, Some("a"), Some("a"), Proposed, Null),
     SubmissionInput("modify", Some(1), Null, Null, Proposed, Null),
     SubmissionInput("other", Null, Null, Null, Proposed, Null)}

\* the ids a review request names: the first submission's and one never assigned
ReviewIds == {1, seq.submissions + 1}

\* what the budget of a run counts: rows inserted and tokens issued (the clock stands
\* still in these runs: no route reads it but for the two timestamps)
requests == events + issued

NextApi ==
    \/ \E c \in Cookies : GetAuthStatus(c)
    \/ \E c \in Cookies, secret \in Secrets : PostLogin(c, secret) /\ requests' <= MaxEvents
    \/ \E c \in Cookies : PostLogout(c)
    \/ \E c \in Cookies, body \in Bodies, complete \in BOOLEAN :
          PostSubmissions(c, body, complete) /\ requests' <= MaxEvents
    \/ \E c \in Cookies : GetSubmissions(c)
    \/ \E c \in Cookies, id \in ReviewIds, d \in Decisions \cup {"other"} :
          PostReview(c, id, d) /\ requests' <= MaxEvents
    \/ \E c \in Cookies, complete \in BOOLEAN :
          PostDomains(c, "a", complete) /\ requests' <= MaxEvents
    \/ \E c \in Cookies : PutDomain(c, "a", NameChange)
    \/ \E c \in Cookies : DeleteDomain(c, "a")
    \/ \E c \in Cookies, complete \in BOOLEAN :
          PostCategories(c, "a", "a", complete) /\ requests' <= MaxEvents
    \/ \E c \in Cookies : PutCategory(c, "a", "a", DescriptionChange)
    \/ \E c \in Cookies : DeleteCategory(c, "a", "a")
    \/ \E c \in Cookies, complete \in BOOLEAN :
          PostPatterns(c, "a", "a", complete) /\ requests' <= MaxEvents
    \/ \E c \in Cookies : PutPattern(c, 1, LabelChange)
    \/ \E c \in Cookies : DeletePattern(c, 1)

SpecApi == InitApi /\ [][NextApi]_vars

\* ---- the HTTP server and the stdio server on one database ----

\* what no statement of the store touches
server == <<adminSecret, sessions, issued, response, thrown>>

NextConcurrent ==
    \/ \E c \in Conns : statement(c, addDomain("a", "t1", "t2"))
          /\ events' <= MaxEvents /\ UNCHANGED server
    \/ \E c \in Conns : statement(c, deleteDomain("a")) /\ UNCHANGED server
    \/ \E c \in Conns, input \in Bodies : statement(c, addSubmission(input))
          /\ events' <= MaxEvents /\ UNCHANGED server
    \/ \E c \in Conns : beginAddCategory(c, "a", "a") /\ UNCHANGED server
    \/ \E c \in Conns : endAddCategory(c) /\ events' <= MaxEvents /\ UNCHANGED server
    \/ \E c \in Conns : beginAddPattern(c, "a", "a") /\ UNCHANGED server
    \/ \E c \in Conns : endAddPattern(c) /\ events' <= MaxEvents /\ UNCHANGED server
    \/ \E c \in Conns : beginDeleteCategory(c, "a", "a") /\ UNCHANGED server
    \/ \E c \in Conns : endDeleteCategory(c) /\ UNCHANGED server
    \/ \E c \in Conns, id \in ReviewIds, d \in Decisions :
          beginReview(c, id, d) /\ UNCHANGED server
    \/ \E c \in Conns : reviewLookup(c) /\ UNCHANGED server
    \/ \E c \in Conns : reviewUpdatePattern(c) /\ UNCHANGED server
    \/ \E c \in Conns : reviewMark(c) /\ UNCHANGED server
    \/ Tick /\ events' <= MaxEvents /\ UNCHANGED outside

SpecConcurrent == Init /\ [][NextConcurrent]_vars

\* ---- the intake of submissions: every shape of input, on a one-branch hierarchy ----

\* inputs that name neither slugs nor target: every optional field left out
BareInputs ==
    {SubmissionInput(type, Null, Null, Null, Proposed, Null) : type \in {"new", "modify"}}

NextIntake ==
    \/ addDomain("a", "t1", "t2") /\ events' <= MaxEvents /\ UNCHANGED outside
    \/ addCategory("a", "a", "t1", "t2") /\ events' <= MaxEvents /\ UNCHANGED outside
    \/ addPattern("a", "a", NewPattern) /\ events' <= MaxEvents /\ UNCHANGED outside
    \/ \E id \in PatternIds : deletePattern(id) /\ UNCHANGED outside
    \/ \E input \in SubmissionInputs \cup BareInputs :
          addSubmission(input) /\ events' <= MaxEvents /\ UNCHANGED outside
    \/ \E id \in SubmissionIds, d \in Decisions :
          reviewSubmission(id, d) /\ events' <= MaxEvents /\ UNCHANGED outside
    \/ Tick /\ UNCHANGED outside

SpecIntake == Init /\ [][NextIntake]_vars

\* ---- a caller that reviews again after an acceptance has thrown ----

\* the errors the hierarchy call of an acceptance throws
AcceptanceErrors == {"DomainNotFound", "CategoryNotFound", "PatternNotFound"}

\* the caller's call of reviewSubmission: it notes the id when the acceptance throws
review(id, decision) ==
    /\ reviewSubmission(id, decision)
    /\ thrown' = IF decision = "accepted" /\ last'.result \in AcceptanceErrors
                   THEN thrown \cup {id} ELSE thrown
    /\ UNCHANGED <<adminSecret, sessions, issued, response, inflight>>

NextRetry ==
    \/ addDomain("a", "t1", "t2") /\ events' <= MaxEvents /\ UNCHANGED outside
    \/ addCategory("a", "a", "t1", "t2") /\ events' <= MaxEvents /\ UNCHANGED outside
    \/ deleteDomain("a") /\ UNCHANGED outside
    \/ deleteCategory("a", "a") /\ UNCHANGED outside
    \/ \E id \in PatternIds : deletePattern(id) /\ UNCHANGED outside
    \/ \E input \in SubmissionInputs :
          addSubmission(input) /\ events' <= MaxEvents /\ UNCHANGED outside
    \/ \E id \in SubmissionIds, d \in Decisions : review(id, d) /\ events' <= MaxEvents
    \/ Tick /\ UNCHANGED outside

SpecRetry == Init /\ [][NextRetry]_vars

\* ---- properties ----

Reviewed == {s \in submissions : s.status # "pending"}
Pending == {s \in submissions : s.status = "pending"}

\* C1: once a submission is accepted or rejected, no step changes its status or
\* reviewed_at, and every reviewSubmission on its id, with either decision, throws
\* "already been reviewed"
C1_ReviewedAtMostOnce ==
    [][\A s \in Reviewed :
          /\ \E t \in submissions' :
                t.id = s.id /\ t.status = s.status /\ t.reviewed_at = s.reviewed_at
          /\ last'.op = "reviewSubmission" =>
                \A d \in Decisions :
                   reviewSubmission(s.id, d) => last'.result = "AlreadyReviewed"]_vars

\* a second review was refused after the clock had moved on from the first one
C1_Witness ==
    /\ last = Called("reviewSubmission", "AlreadyReviewed")
    /\ \E s \in Reviewed : s.reviewed_at[1] < now

\* C2: accepting a pending 'new' submission never throws for a missing domain or
\* category: they are created, and afterwards the domain, the category and a pattern
\* with the submission's content exist
C2_AcceptNewCreatesMissingNodes ==
    [][\A s \in Pending :
          (/\ s.type = "new" /\ s.domain_slug # Null /\ s.category_slug # Null
           /\ reviewSubmission(s.id, "accepted"))
          => /\ last'.result = "ok"
             /\ (domainBySlug(s.domain_slug[1]))' # {}
             /\ \E c \in (categoryBySlugs(s.domain_slug[1], s.category_slug[1]))' :
                   \E p \in patterns' :
                      /\ p.category_id = c.id
                      /\ contentOf(p) = contentOf(s)]_vars

TargetGone(s) ==
    \/ s.target_pattern_id = Null
    \/ \A p \in patterns : p.id # s.target_pattern_id[1]

\* C4: accepting a 'modify' submission whose target pattern was deleted throws a
\* not-found error and leaves the submission pending and the hierarchy as it was
C4_AcceptModifyOfDeletedLeafFails ==
    [][\A s \in Pending :
          (s.type = "modify" /\ TargetGone(s) /\ reviewSubmission(s.id, "accepted"))
          => /\ last'.result \in NotFound
             /\ UNCHANGED <<hierarchy, submissions>>]_vars

\* C5: reviewed_at is set if and only if the status is accepted or rejected
C5_ReviewedAtIffReviewed ==
    \A s \in submissions :
       (s.reviewed_at # Null) <=> (s.status \in {"accepted", "rejected"})

\* a reviewed submission, next to one still pending
C5_Witness ==
    /\ last = Called("reviewSubmission", "ok")
    /\ \E s \in Reviewed : s.reviewed_at # Null
    /\ Pending # {}

\* C6 as stated: a step that changes a stored submission is a review of it, and
\* no step removes a submission
C6_OnlyReviewChangesSubmission ==
    [][\A s \in submissions :
          \/ s \in submissions'
          \/ /\ last'.op = "reviewSubmission"
             /\ \E t \in submissions' : t.id = s.id]_vars

DeleteMethods == {"deletePattern", "deleteCategory", "deleteDomain"}

\* C6 amended: a step that changes a stored submission is its one review, which
\* sets status and reviewed_at only, or the delete of the pattern it targets, which
\* sets target_pattern_id to NULL only; no step removes a submission
C6_OnlyReviewOrTargetDeleteChangesSubmission ==
    [][\A s \in submissions :
          \/ s \in submissions'
          \/ /\ s.status = "pending"
             /\ \E d \in Decisions :
                   /\ reviewSubmission(s.id, d)
                   /\ [s EXCEPT !.status = d, !.reviewed_at = Some(now)] \in submissions'
          \/ /\ last' \in {Called(m, "ok") : m \in DeleteMethods}
             /\ s.target_pattern_id # Null
             /\ \E p \in patterns \ patterns' : p.id = s.target_pattern_id[1]
             /\ [s EXCEPT !.target_pattern_id = Null] \in submissions']_vars

\* a cascade from deleteDomain has set NULL the target of a 'modify' submission
C6_Witness ==
    /\ last = Called("deleteDomain", "ok")
    /\ \E s \in submissions : s.type = "modify" /\ s.target_pattern_id = Null

\* C7: every category's domain exists and every pattern's category exists
C7_ReferentialIntegrity ==
    /\ \A c \in categories : \E d \in domains : d.id = c.domain_id
    /\ \A p \in patterns : \E c \in categories : c.id = p.category_id

\* a domain was deleted that had a category with a pattern, and another domain is left
C7_Witness ==
    /\ last = Called("deleteDomain", "ok")
    /\ seq.domains = 2 /\ seq.categories = 1 /\ seq.patterns = 1
    /\ Cardinality(domains) = 1 /\ categories = {} /\ patterns = {}

CategoriesOf(d) == {c \in categories : c.domain_id = d.id}
PatternsOf(cs) == {p \in patterns : \E c \in cs : p.category_id = c.id}

\* C8: deleteDomain of an existing slug removes that domain, its categories and
\* their patterns and nothing else, and getCategories / getPatterns of the slug then
\* return empty; deleteCategory removes that category and its patterns and nothing else
C8_DeleteCascadesExactly ==
    [][/\ \A slug \in Slugs :
             (/\ last'.op = "deleteDomain" /\ domainBySlug(slug) # {}
              /\ deleteDomain(slug)) =>
                LET d == CHOOSE x \in domainBySlug(slug) : TRUE
                IN /\ last'.result = "ok"
                   /\ domains' = domains \ {d}
                   /\ categories' = categories \ CategoriesOf(d)
                   /\ patterns' = patterns \ PatternsOf(CategoriesOf(d))
                   /\ (getCategories(slug))' = <<>>
                   /\ \A S \in SUBSET Slugs : (getPatterns(slug, S))' = <<>>
       /\ \A ds \in Slugs, cs \in Slugs :
             (/\ last'.op = "deleteCategory" /\ categoryBySlugs(ds, cs) # {}
              /\ deleteCategory(ds, cs)) =>
                /\ last'.result = "ok"
                /\ domains' = domains
                /\ categories' = categories \ categoryBySlugs(ds, cs)
                /\ Cardinality(categoryBySlugs(ds, cs)) = 1
                /\ patterns' = patterns \ PatternsOf(categoryBySlugs(ds, cs))]_vars

\* a domain with a category was deleted; the other domain keeps its category of the
\* same slug and that category's pattern
C8_Witness ==
    /\ last = Called("deleteDomain", "ok")
    /\ seq.domains = 2 /\ seq.categories = 2 /\ seq.patterns = 1
    /\ Cardinality(domains) = 1 /\ Cardinality(categories) = 1
    /\ Cardinality(patterns) = 1

\* C9: no two domains share a slug and no two categories of a domain share a slug
C9_SlugUniqueness ==
    /\ \A d1 \in domains, d2 \in domains : d1.slug = d2.slug => d1 = d2
    /\ \A c1 \in categories, c2 \in categories :
          (c1.domain_id = c2.domain_id /\ c1.slug = c2.slug) => c1 = c2

\* a duplicate domain slug was refused, and a submission was accepted, in a store
\* of two domains
C9_Witness ==
    /\ last = Called("addDomain", "UniqueConstraint")
    /\ Cardinality(domains) = 2
    /\ \E s \in submissions : s.status = "accepted"

SameSlugElsewhere(c) ==
    \E o \in categories : o.slug = c.slug /\ o.domain_id # c.domain_id

\* C10: addDomain of an existing slug, and addCategory of a slug the domain already
\* has, throw the UNIQUE error and change no table; addCategory of a slug that only
\* another domain has succeeds
C10_DuplicateSlugs ==
    [][/\ \A slug \in Slugs :
             (/\ last'.op = "addDomain" /\ domainBySlug(slug) # {}
              /\ addDomain(slug, "t1", "t2")) =>
                /\ last'.result = "UniqueConstraint"
                /\ UNCHANGED <<hierarchy, submissions, seq>>
       /\ \A ds \in Slugs, slug \in Slugs :
             (/\ last'.op = "addCategory" /\ categoryBySlugs(ds, slug) # {}
              /\ addCategory(ds, slug, "t1", "t2")) =>
                /\ last'.result = "UniqueConstraint"
                /\ UNCHANGED <<hierarchy, submissions, seq>>
       /\ \A ds \in Slugs, slug \in Slugs :
             (/\ last'.op = "addCategory"
              /\ domainBySlug(ds) # {} /\ categoryBySlugs(ds, slug) = {}
              /\ addCategory(ds, slug, "t1", "t2")) =>
                /\ last'.result = "ok"
                /\ categories \subseteq categories'
                /\ \E c \in categories' \ categories :
                      /\ c \in (categoryBySlugs(ds, slug))'
                      /\ c.name = "t1" /\ c.description = "t2"]_vars

\* a duplicate category slug was refused in a domain, while another domain has a
\* category of that slug too
C10_Witness ==
    /\ last = Called("addCategory", "UniqueConstraint")
    /\ \E c \in categories : SameSlugElsewhere(c)

\* C11: addCategory under an unknown domain, addPattern under an unresolvable
\* (domain, category) pair, and deleteDomain, deleteCategory, deletePattern of a missing
\* target each throw a not-found error and change no table
C11_MissingTargetFails ==
    [][/\ \A ds \in Slugs, slug \in Slugs :
             (/\ last'.op = "addCategory" /\ domainBySlug(ds) = {}
              /\ addCategory(ds, slug, "t1", "t2")) =>
                /\ last'.result \in NotFound
                /\ UNCHANGED <<hierarchy, submissions, seq>>
       /\ \A ds \in Slugs, cs \in Slugs :
             (/\ last'.op = "addPattern" /\ categoryBySlugs(ds, cs) = {}
              /\ addPattern(ds, cs, NewPattern)) =>
                /\ last'.result \in NotFound
                /\ UNCHANGED <<hierarchy, submissions, seq>>
       /\ \A slug \in Slugs :
             (/\ last'.op = "deleteDomain" /\ domainBySlug(slug) = {}
              /\ deleteDomain(slug)) =>
                /\ last'.result \in NotFound
                /\ UNCHANGED <<hierarchy, submissions, seq>>
       /\ \A ds \in Slugs, cs \in Slugs :
             (/\ last'.op = "deleteCategory" /\ categoryBySlugs(ds, cs) = {}
              /\ deleteCategory(ds, cs)) =>
                /\ last'.result \in NotFound
                /\ UNCHANGED <<hierarchy, submissions, seq>>
       /\ \A id \in PatternIds :
             (/\ last'.op = "deletePattern" /\ (\A p \in patterns : p.id # id)
              /\ deletePattern(id)) =>
                /\ last'.result \in NotFound
                /\ UNCHANGED <<hierarchy, submissions, seq>>]_vars

\* a deleteCategory found no category although categories, a pattern and a
\* submission are stored
C11_Witness ==
    /\ last = Called("deleteCategory", "CategoryNotFound")
    /\ categories # {} /\ patterns # {} /\ submissions # {}

\* the row a partial update leaves: the supplied columns take the values supplied,
\* every other column keeps its value
PartlyUpdated(old, new, changes) ==
    /\ DOMAIN new = DOMAIN old
    /\ \A f \in DOMAIN old :
          new[f] = IF f \in DOMAIN changes /\ changes[f] # Null THEN changes[f][1]
                   ELSE old[f]

\* C12: an update with a field supplied throws a not-found error and changes no
\* table when the target is missing; otherwise it changes the supplied columns of the
\* target row only, and no other row of any table
C12_UpdatesArePartial ==
    [][/\ \A ch \in {NameChange, DescriptionChange} :
             (last'.op = "updateDomain" /\ updateDomain("a", ch)) =>
                IF domainBySlug("a") = {}
                  THEN /\ last'.result \in NotFound
                       /\ UNCHANGED <<hierarchy, submissions, seq>>
                  ELSE /\ last'.result = "ok"
                       /\ \E d \in domainBySlug("a") : \E e \in domains' :
                             /\ PartlyUpdated(d, e, ch)
                             /\ domains' = (domains \ {d}) \cup {e}
                       /\ UNCHANGED <<categories, patterns, submissions, seq>>
       /\ \A ch \in {NameChange, DescriptionChange} :
             (last'.op = "updateCategory" /\ updateCategory("a", "a", ch)) =>
                IF categoryBySlugs("a", "a") = {}
                  THEN /\ last'.result \in NotFound
                       /\ UNCHANGED <<hierarchy, submissions, seq>>
                  ELSE /\ last'.result = "ok"
                       /\ \E c \in categoryBySlugs("a", "a") : \E e \in categories' :
                             /\ PartlyUpdated(c, e, ch)
                             /\ categories' = (categories \ {c}) \cup {e}
                       /\ UNCHANGED <<domains, patterns, submissions, seq>>
       /\ (last'.op = "updatePattern" /\ updatePattern(1, LabelChange)) =>
             IF \A p \in patterns : p.id # 1
               THEN /\ last'.result \in NotFound
                    /\ UNCHANGED <<hierarchy, submissions, seq>>
               ELSE /\ last'.result = "ok"
                    /\ \E p \in patterns : \E e \in patterns' :
                          /\ p.id = 1
                          /\ PartlyUpdated(p, e, LabelChange)
                          /\ patterns' = (patterns \ {p}) \cup {e}
                    /\ UNCHANGED <<domains, categories, submissions, seq>>]_vars

\* a category that has a pattern got a new description and kept its name
C12_Witness ==
    /\ last = Called("updateCategory", "ok")
    /\ \E c \in categories :
          /\ c.name = "t1" /\ c.description = "t1"
          /\ \E p \in patterns : p.category_id = c.id

\* the pattern row carries the four texts of the submission
CarriesContent(p, s) ==
    /\ p.label = s.label /\ p.description = s.description
    /\ p.intention = s.intention /\ p.template = s.template

\* the submission as its review leaves it
ReviewedAs(s, decision) == [s EXCEPT !.status = decision, !.reviewed_at = Some(now)]

\* C13: accepting a pending 'new' submission whose domain and category exist adds
\* exactly one pattern, in that category and with the submission's four texts, leaves
\* every other row of the hierarchy as it was, and sets the submission accepted
C13_AcceptNewAddsOnePattern ==
    [][\A s \in Pending :
          (/\ last'.op = "reviewSubmission"
           /\ s.type = "new" /\ s.domain_slug # Null /\ s.category_slug # Null
           /\ categoryBySlugs(s.domain_slug[1], s.category_slug[1]) # {}
           /\ reviewSubmission(s.id, "accepted"))
          => /\ last'.result = "ok"
             /\ UNCHANGED <<domains, categories>>
             /\ patterns \subseteq patterns'
             /\ Cardinality(patterns' \ patterns) = 1
             /\ \A p \in patterns' \ patterns :
                   /\ \E c \in categoryBySlugs(s.domain_slug[1], s.category_slug[1]) :
                         p.category_id = c.id
                   /\ CarriesContent(p, s)
                   /\ \A q \in patterns : q.id # p.id
             /\ submissions' = (submissions \ {s}) \cup {ReviewedAs(s, "accepted")}]_vars

\* an accepted 'new' submission has put its pattern next to an older one
C13_Witness ==
    /\ last = Called("reviewSubmission", "ok")
    /\ \E s \in Reviewed : \E p \in patterns, q \in patterns :
          /\ s.type = "new" /\ s.status = "accepted"
          /\ CarriesContent(p, s)
          /\ q.id < p.id /\ q.category_id = p.category_id /\ ~CarriesContent(q, s)

\* C14: accepting a pending 'modify' submission whose target pattern exists writes
\* the submission's four texts to that pattern, keeps its id and category, adds and
\* deletes no row of the hierarchy, and sets the submission accepted
C14_AcceptModifyOverwritesTarget ==
    [][\A s \in Pending :
          (/\ last'.op = "reviewSubmission"
           /\ s.type = "modify" /\ ~TargetGone(s)
           /\ reviewSubmission(s.id, "accepted"))
          => /\ last'.result = "ok"
             /\ UNCHANGED <<domains, categories, seq>>
             /\ \E p \in patterns :
                   /\ p.id = s.target_pattern_id[1]
                   /\ patterns' = (patterns \ {p}) \cup
                         {[p EXCEPT !.label = s.label, !.description = s.description,
                                    !.intention = s.intention, !.template = s.template]}
             /\ submissions' = (submissions \ {s}) \cup {ReviewedAs(s, "accepted")}]_vars

\* an accepted 'modify' submission whose target now carries its texts
C14_Witness ==
    /\ last = Called("reviewSubmission", "ok")
    /\ \E s \in Reviewed : \E p \in patterns :
          /\ s.type = "modify" /\ s.status = "accepted"
          /\ s.target_pattern_id = Some(p.id)
          /\ CarriesContent(p, s)

\* C15: rejecting a pending submission sets its status and reviewed_at and changes
\* nothing else: no row of the hierarchy and no other submission
C15_RejectChangesOnlyTheSubmission ==
    [][\A s \in Pending :
          (last'.op = "reviewSubmission" /\ reviewSubmission(s.id, "rejected"))
          => /\ last'.result = "ok"
             /\ UNCHANGED <<hierarchy, seq>>
             /\ submissions' = (submissions \ {s}) \cup {ReviewedAs(s, "rejected")}]_vars

\* a 'modify' submission was rejected: its target keeps its texts, and another
\* submission is still pending
C15_Witness ==
    /\ last = Called("reviewSubmission", "ok")
    /\ Pending # {}
    /\ \E s \in Reviewed : \E p \in patterns :
          /\ s.type = "modify" /\ s.status = "rejected"
          /\ s.target_pattern_id = Some(p.id)
          /\ ~CarriesContent(p, s)

\* an input addSubmission is to refuse: a type that is neither 'new' nor 'modify', a
\* 'new' without domainSlug or categorySlug, a 'modify' without targetPatternId
Malformed(input) ==
    \/ input.type \notin {"new", "modify"}
    \/ input.type = "new" /\ (input.domainSlug = Null \/ input.categorySlug = Null)
    \/ input.type = "modify" /\ input.targetPatternId = Null

\* C16: addSubmission of a malformed input throws and stores nothing, so every
\* stored 'new' submission names its domain and its category
C16_MalformedInputRefused ==
    [][/\ \A input \in SubmissionInputs \cup BareInputs :
             (last'.op = "addSubmission" /\ Malformed(input) /\ addSubmission(input))
             => /\ last'.result # "ok"
                /\ UNCHANGED <<hierarchy, submissions, seq>>
       /\ \A t \in submissions' :
             t.type = "new" => t.domain_slug # Null /\ t.category_slug # Null]_vars

\* C17: addSubmission of a 'new' input that names a domain and a category succeeds
\* whether or not they exist; it stores one more submission, pending and with
\* reviewed_at NULL, returns its id, and changes no row of the hierarchy
C17_AddSubmissionStoresPending ==
    [][\A input \in SubmissionInputs :
          (/\ last'.op = "addSubmission"
           /\ input.type = "new" /\ input.domainSlug # Null /\ input.categorySlug # Null
           /\ addSubmission(input))
          => /\ last'.result = "ok"
             /\ UNCHANGED hierarchy
             /\ \E t \in submissions' :
                   /\ submissions' = submissions \cup {t}
                   /\ \A o \in submissions : o.id # t.id
                   /\ t.id = lastInsertRowid'
                   /\ t.type = "new" /\ t.status = "pending"
                   /\ t.submitted_at = now /\ t.reviewed_at = Null
                   /\ t.domain_slug = input.domainSlug
                   /\ t.category_slug = input.categorySlug
                   /\ CarriesContent(t, input)]_vars

\* the submission just stored proposes a pattern for a category that does not
\* exist, in a store that has a domain and an earlier submission
C17_Witness ==
    /\ last = Called("addSubmission", "ok")
    /\ domains # {} /\ Cardinality(submissions) = 2
    /\ \E s \in Pending :
          /\ s.id = lastInsertRowid
          /\ s.type = "new"
          /\ categoryBySlugs(s.domain_slug[1], s.category_slug[1]) = {}

\* submission s is returned, with its status, by getSubmission and getSubmissions
Readable(s) ==
    /\ \E t \in getSubmission(s.id) : t.status = s.status
    /\ \A status \in {Null, Some(s.status)} :
          \E i \in DOMAIN getSubmissions(status) :
             /\ getSubmissions(status)[i].id = s.id
             /\ getSubmissions(status)[i].status = s.status

\* C18: deletePattern, deleteCategory and deleteDomain of an existing target return
\* normally and remove it also when submissions refer to a pattern that goes, and
\* every submission is still returned by getSubmission and getSubmissions with the
\* status it had
C18_DeleteNotBlockedBySubmissions ==
    [][/\ \A id \in PatternIds :
             (/\ last'.op = "deletePattern" /\ (\E p \in patterns : p.id = id)
              /\ deletePattern(id)) =>
                /\ last'.result = "ok"
                /\ \A p \in patterns' : p.id # id
                /\ \A s \in submissions : (Readable(s))'
       /\ \A ds \in Slugs, cs \in Slugs :
             (/\ last'.op = "deleteCategory" /\ categoryBySlugs(ds, cs) # {}
              /\ deleteCategory(ds, cs)) =>
                /\ last'.result = "ok"
                /\ patterns' \cap PatternsOf(categoryBySlugs(ds, cs)) = {}
                /\ \A s \in submissions : (Readable(s))'
       /\ \A slug \in Slugs :
             (/\ last'.op = "deleteDomain" /\ domainBySlug(slug) # {}
              /\ deleteDomain(slug)) =>
                /\ last'.result = "ok"
                /\ (domainBySlug(slug))' = {}
                /\ \A s \in submissions : (Readable(s))']_vars

\* a category went with a pattern that a pending and a reviewed 'modify'
\* submission referred to; both are stored still
C18_Witness ==
    /\ last = Called("deleteCategory", "ok")
    /\ patterns = {}
    /\ \E s \in Pending, r \in Reviewed :
          /\ s.type = "modify" /\ s.target_pattern_id = Null
          /\ r.type = "modify" /\ r.target_pattern_id = Null

\* the patterns of the categories of domain domainSlug whose slug is in categorySlugs
PatternsUnder(domainSlug, categorySlugs) ==
    {p \in patterns :
        \E c \in categories, d \in domains :
           /\ p.category_id = c.id /\ c.slug \in categorySlugs
           /\ c.domain_id = d.id /\ d.slug = domainSlug}

\* the slug of the category that owns pattern row p
CategorySlugOf(p) == (CHOOSE c \in categories : c.id = p.category_id).slug

\* C19: getPatterns(domainSlug, S) returns the patterns of that domain's categories
\* with a slug in S and no others, each once, ordered by category slug and then by
\* pattern id; unknown slugs add nothing and an empty S gives an empty result
C19_GetPatternsExact ==
    \A ds \in Slugs, S \in SUBSET Slugs :
       LET rs == getPatternsWithIds(ds, S)
           ps == getPatterns(ds, S)
       IN /\ Len(rs) = Cardinality(PatternsUnder(ds, S))
          /\ \A p \in PatternsUnder(ds, S) : \E i \in DOMAIN rs : rs[i].id = p.id
          /\ \A i \in DOMAIN rs : \E p \in PatternsUnder(ds, S) :
                /\ rs[i].id = p.id /\ CarriesContent(rs[i], p)
          /\ \A i \in DOMAIN rs, j \in DOMAIN rs :
                i < j =>
                   \/ slugRank(CategorySlugOf(rs[i])) < slugRank(CategorySlugOf(rs[j]))
                   \/ /\ CategorySlugOf(rs[i]) = CategorySlugOf(rs[j])
                      /\ rs[i].id < rs[j].id
          /\ Len(ps) = Len(rs)
          /\ \A i \in DOMAIN ps :
                /\ DOMAIN ps[i] = {"label", "description", "intention", "template"}
                /\ CarriesContent(ps[i], rs[i])
          /\ S = {} => ps = <<>>

\* two domains have a category of the same slug; one of them has a pattern, and
\* getPatterns returns it for that domain only
C19_Witness ==
    \E d \in domains, e \in domains, c \in categories, o \in categories :
       /\ d # e /\ c.domain_id = d.id /\ o.domain_id = e.id /\ c.slug = o.slug
       /\ Len(getPatterns(d.slug, {c.slug})) = 1
       /\ getPatterns(e.slug, Slugs) = <<>>

\* C20: a lookup of an unknown name returns the absence value and throws nothing:
\* getDomain undefined, getCategories and getPatterns an empty array, getSubmission
\* undefined
C20_UnknownLookupsReturnNothing ==
    /\ \A slug \in Slugs :
          domainBySlug(slug) = {} =>
             /\ getDomain(slug) = Null
             /\ getCategories(slug) = <<>>
             /\ \A S \in SUBSET Slugs : getPatterns(slug, S) = <<>>
    /\ \A id \in SubmissionIds \cup {0} :
          (\A s \in submissions : s.id # id) => getSubmission(id) = {}

\* slug "b" and the next submission id are unknown in a store that has a domain
\* with a category and a pattern, and a submission
C20_Witness ==
    /\ domainBySlug("b") = {}
    /\ getDomain("a") # Null /\ getPatterns("a", Slugs) # <<>>
    /\ submissions # {}
    /\ getSubmission(lastInsertRowid + 1) = {}

\* the rows a call of getSubmissions is to return: every one, or those of a status
Stored(status) ==
    IF status = Null THEN submissions ELSE {s \in submissions : s.status = status[1]}

\* C21: getSubmissions() returns every stored submission once, the most recently
\* created first; getSubmissions(status) returns the stored submissions that have
\* that status now, in the same order
C21_GetSubmissionsNewestFirst ==
    \A status \in {Null, Some("pending"), Some("accepted"), Some("rejected")} :
       LET rs == getSubmissions(status)
       IN /\ Len(rs) = Cardinality(Stored(status))
          /\ {rs[i] : i \in DOMAIN rs} = Stored(status)
          /\ \A i \in DOMAIN rs, j \in DOMAIN rs :
                i < j => /\ rs[i].id > rs[j].id
                         /\ rs[i].submitted_at >= rs[j].submitted_at

\* three submissions made at different times, one of them reviewed
C21_Witness ==
    /\ Len(getSubmissions(Null)) = 3
    /\ Len(getSubmissions(Some("pending"))) = 2
    /\ getSubmissions(Null)[1].submitted_at > getSubmissions(Null)[3].submitted_at

C23_ImpactReportsMissingNodes ==
    \A s \in submissions :
       LET impact == getSubmissionImpact(s.id)
       IN IF s.type = "new" /\ s.status = "pending"
            THEN /\ (impact.newDomain # Null) <=> (\A d \in domains : d.slug # s.domain_slug[1])
                 /\ (impact.newCategory # Null) <=>
                       ~(\E c \in categories, d \in domains :
                            /\ c.domain_id = d.id /\ d.slug = s.domain_slug[1]
                            /\ c.slug = s.category_slug[1])
                 /\ impact.newDomain # Null => impact.newDomain[1].slug = s.domain_slug[1]
                 /\ impact.newCategory # Null =>
                       impact.newCategory[1].slug = s.category_slug[1]
            ELSE impact.newDomain = Null /\ impact.newCategory = Null

\* the domain of a pending 'new' submission exists and its category does not, next
\* to a reviewed 'modify' submission
C23_Witness ==
    /\ \E s \in Pending :
          /\ s.type = "new"
          /\ getSubmissionImpact(s.id).newDomain = Null
          /\ getSubmissionImpact(s.id).newCategory # Null
    /\ \E m \in Reviewed : m.type = "modify"

\* the slugs of what the preview reports
Previewed(node) == IF node = Null THEN {} ELSE {node[1].slug}

\* C24: accepting a pending 'new' submission creates the domains and categories that
\* getSubmissionImpact reported just before, no more and no fewer
C24_PreviewPredictsAcceptance ==
    [][\A s \in Pending :
          (/\ last'.op = "reviewSubmission"
           /\ s.type = "new" /\ s.domain_slug # Null /\ s.category_slug # Null
           /\ reviewSubmission(s.id, "accepted"))
          => /\ {d.slug : d \in domains' \ domains}
                   = Previewed(getSubmissionImpact(s.id).newDomain)
             /\ {c.slug : c \in categories' \ categories}
                   = Previewed(getSubmissionImpact(s.id).newCategory)]_vars

\* C27: a GET /submissions or POST /submissions/:id/review request without a valid
\* session is answered 401 and changes no submission and nothing of the hierarchy;
\* POST /submissions with a complete body is answered 201 and stores the submission
\* without a session (500, as with a session, when it names a pattern that is not there)
C27_SubmissionAdminRoutesNeedSession ==
    [][/\ response'.route = "GET /submissions" =>
             \A c \in Cookies :
                (~isValidSession(c) /\ GetSubmissions(c))
                => /\ response'.status = 401
                   /\ UNCHANGED <<hierarchy, submissions, seq>>
       /\ response'.route = "POST /submissions/:id/review" =>
             \A c \in Cookies :
                ~isValidSession(c) =>
                   \A id \in ReviewIds, d \in Decisions \cup {"other"} :
                      PostReview(c, id, d)
                      => /\ response'.status = 401
                         /\ UNCHANGED <<hierarchy, submissions, seq>>
       /\ response'.route = "POST /submissions" =>
             \A c \in Cookies :
                ~isValidSession(c) =>
                   \A body \in Bodies :
                      (body.type \in {"new", "modify"} /\ PostSubmissions(c, body, TRUE))
                      => IF /\ body.targetPatternId # Null
                            /\ \A p \in patterns : p.id # body.targetPatternId[1]
                           THEN response'.status = 500 /\ UNCHANGED submissions
                           ELSE /\ response'.status = 201
                                /\ Cardinality(submissions')
                                      = Cardinality(submissions) + 1]_vars

\* a review was refused with 401 while a submission was pending and a session existed
C27_Witness ==
    /\ response = Responded("POST /submissions/:id/review", 401, FALSE)
    /\ Pending # {}
    /\ sessions # {}

\* C28: a POST, PUT or DELETE on domains, categories or patterns that carries no valid
\* session changes no domain, category or pattern
C28_HierarchyMutationsNeedSession ==
    [][\A c \in Cookies :
          (/\ ~isValidSession(c)
           /\ \/ PostDomains(c, "a", TRUE)
              \/ PutDomain(c, "a", NameChange)
              \/ DeleteDomain(c, "a")
              \/ PostCategories(c, "a", "a", TRUE)
              \/ PutCategory(c, "a", "a", DescriptionChange)
              \/ DeleteCategory(c, "a", "a")
              \/ PostPatterns(c, "a", "a", TRUE)
              \/ PutPattern(c, 1, LabelChange)
              \/ DeletePattern(c, 1))
          => UNCHANGED hierarchy]_vars

\* C29: while ADMIN_SECRET is unset or empty, login returns no token for any secret,
\* POST /auth/login is answered 401, there is no session and no request is admin
C29_NoSecretNoAdmin ==
    (adminSecret = Null \/ adminSecret = Some("")) =>
       /\ \A secret \in Secrets : login(secret) = Null
       /\ sessions = {}
       /\ issued = 0
       /\ \A c \in Cookies : ~authStatus(c)
       /\ ~response.isAdmin
       /\ response.route = "POST /auth/login" => response.status = 401

\* a login was refused while ADMIN_SECRET was unset
C29_Witness ==
    /\ adminSecret = Null
    /\ response = Responded("POST /auth/login", 401, FALSE)

\* C30: a token enters the sessions only as the fresh token of a POST /auth/login with
\* the right secret answered 200, leaves them only by a POST /auth/logout that carries
\* it, which removes that token and no other, and a request is admin exactly when its
\* cookie is in the sessions: a token that was logged out is refused from then on
C30_SessionValidFromLoginToLogout ==
    [][/\ sessions \subseteq 1..issued
       /\ \A t \in sessions' \ sessions :
             /\ t > issued /\ t = issued'
             /\ response' = Responded("POST /auth/login", 200, response'.isAdmin)
             /\ \E c \in Cookies : PostLogin(c, adminSecret[1])
       /\ \A t \in sessions \ sessions' : PostLogout(Some(t))
       /\ \A t \in 1..MaxTokens :
             (response'.route = "POST /auth/logout" /\ PostLogout(Some(t)))
             => sessions' = sessions \ {t}
       /\ \A c \in Cookies :
             /\ (response'.route = "GET /auth/status" /\ GetAuthStatus(c))
                   => response'.isAdmin = (c # Null /\ c[1] \in sessions)
             /\ (response'.route = "GET /submissions" /\ GetSubmissions(c))
                   => (response'.status = 200) = (c # Null /\ c[1] \in sessions)]_vars

\* the first token was logged out while the second session goes on
C30_Witness ==
    /\ issued = 2
    /\ sessions = {2}
    /\ response.route = "POST /auth/logout"

\* an acceptance on connection c has changed the hierarchy and not yet the submission
Applied(c) ==
    /\ inflight[c].pc = "markReviewed"
    /\ inflight[c].applied
    /\ inflight[c].review.decision = "accepted"

\* C25: while an acceptance has added or updated its pattern, no read of the pending
\* submissions returns the submission that is being accepted
C25_NoReadOfInflightAcceptance ==
    \A c \in Conns :
       Applied(c) =>
          \A i \in DOMAIN getSubmissions(Some("pending")) :
             getSubmissions(Some("pending"))[i].id # inflight[c].review.id

\* an add whose INSERT comes after its parent was deleted
ParentGone(c) ==
    \/ inflight[c].pc = "insertCategory" /\ \A d \in domains : d.id # inflight[c].parent
    \/ inflight[c].pc = "insertPattern" /\ \A r \in categories : r.id # inflight[c].parent

\* the INSERT of an addCategory or addPattern call on connection c
AddInsert(c) ==
    \/ inflight[c].pc = "insertCategory" /\ endAddCategory(c)
    \/ inflight[c].pc = "insertPattern" /\ inflight[c].review = NoReview /\ endAddPattern(c)

C31_DiscoverListsDomainsOrCategories ==
    /\ \A r \in createDiscoverHandler(Null) :
          /\ ~r.isError /\ ~r.thrown
          /\ {r.content[i] : i \in DOMAIN r.content}
                = {[name |-> d.name, slug |-> d.slug, description |-> d.description] :
                     d \in domains}
    /\ \A slug \in Slugs : \A r \in createDiscoverHandler(Some(slug)) :
          IF \A d \in domains : d.slug # slug THEN r.isError
          ELSE /\ ~r.isError /\ ~r.thrown
               /\ {r.content[i] : i \in DOMAIN r.content}
                     = {[name |-> c.name, slug |-> c.slug, description |-> c.description] :
                          c \in {x \in categories :
                                   \E d \in domains : d.slug = slug /\ x.domain_id = d.id}}

\* C32: a pattern or a submission that a step adds gets an id larger than every id
\* its table has ever assigned, deleted rows included, and no stored id is beyond the
\* largest assigned: an id never comes to denote another row
C32_IdsNeverReused ==
    [][/\ \A p \in patterns' \ patterns :
             (\A q \in patterns : q.id # p.id) =>
                /\ p.id > seq.patterns
                /\ p.id = seq'.patterns
       /\ \A s \in submissions' \ submissions :
             (\A t \in submissions : t.id # s.id) =>
                /\ s.id > seq.submissions
                /\ s.id = seq'.submissions
       /\ \A p \in patterns' : p.id <= seq'.patterns
       /\ \A s \in submissions' : s.id <= seq'.submissions
       /\ seq'.patterns >= seq.patterns
       /\ seq'.submissions >= seq.submissions]_vars

\* an acceptance has added a pattern after the first pattern was deleted
C32_Witness ==
    /\ last = Called("reviewSubmission", "ok")
    /\ seq.patterns = 2
    /\ {p.id : p \in patterns} = {2}

\* C33: an update with no field supplied ends the same way for a domain, a category
\* and a pattern, whether or not the target is there: it succeeds and changes nothing
C33_EmptyUpdateIsNoOpForAll ==
    [][/\ (last'.op = "updateDomain" /\ updateDomain("a", NoChanges))
             => last'.result = "ok" /\ UNCHANGED <<hierarchy, submissions, seq>>
       /\ (last'.op = "updateCategory" /\ updateCategory("a", "a", NoChanges))
             => last'.result = "ok" /\ UNCHANGED <<hierarchy, submissions, seq>>
       /\ (last'.op = "updatePattern" /\ updatePattern(1, NoPatternChanges))
             => last'.result = "ok" /\ UNCHANGED <<hierarchy, submissions, seq>>]_vars

\* C34: after a delete of a pattern, a category or a domain, the submissions whose
\* target_pattern_id named a pattern that went have it NULL and every other column as
\* before; the submissions that named no such pattern are as before
C34_DeleteNullsOnlyTheTarget ==
    [][last'.op \in DeleteMethods =>
          submissions' =
             {IF /\ s.target_pattern_id # Null
                 /\ \E p \in patterns \ patterns' : p.id = s.target_pattern_id[1]
                THEN [s EXCEPT !.target_pattern_id = Null]
                ELSE s : s \in submissions}]_vars

\* the pattern an accepted 'modify' submission had changed was deleted; the
\* submission is accepted still, with its reviewed_at
C34_Witness ==
    /\ last = Called("deletePattern", "ok")
    /\ \E s \in submissions :
          /\ s.type = "modify" /\ s.status = "accepted"
          /\ s.target_pattern_id = Null /\ s.reviewed_at # Null

\* C35: addSubmission with a targetPatternId that names no stored pattern fails and
\* stores nothing, and a submission just stored with a target names a stored pattern
C35_AddSubmissionNeedsItsTarget ==
    [][last'.op = "addSubmission" =>
          /\ \A input \in SubmissionInputs :
                (/\ input.targetPatternId # Null
                 /\ \A p \in patterns : p.id # input.targetPatternId[1]
                 /\ addSubmission(input))
                => /\ last'.result # "ok"
                   /\ UNCHANGED <<submissions, seq, hierarchy>>
          /\ \A s \in submissions' \ submissions :
                s.target_pattern_id # Null
                => \E p \in patterns' : p.id = s.target_pattern_id[1]]_vars

\* a 'modify' submission was refused: the pattern it names had been deleted
C35_Witness ==
    /\ last = Called("addSubmission", "ForeignKeyConstraint")
    /\ seq.patterns = 1
    /\ patterns = {}
    /\ submissions = {}

\* the methods that add, update or delete domains, categories and patterns
HierarchyMethods ==
    {"addDomain", "addCategory", "addPattern", "updateDomain", "updateCategory",
     "updatePattern"} \cup DeleteMethods

\* C36: a call that adds, updates or deletes a domain, a category or a pattern leaves
\* the status and the reviewed_at of every submission as they were, and adds or
\* removes no submission
C36_HierarchyCallsDecideNothing ==
    [][last'.op \in HierarchyMethods =>
          /\ {s.id : s \in submissions'} = {s.id : s \in submissions}
          /\ \A s \in submissions : \A t \in submissions' :
                t.id = s.id => t.status = s.status /\ t.reviewed_at = s.reviewed_at]_vars

\* the pattern that an accepted 'new' submission created was deleted with its
\* domain: the submission is accepted still, with its reviewed_at
C36_Witness ==
    /\ last = Called("deleteDomain", "ok")
    /\ \E s \in submissions :
          /\ s.status = "accepted" /\ s.reviewed_at # Null
          /\ s.type = "new"
    /\ patterns = {}
    /\ seq.patterns >= 1

\* C37: in every state, whatever the hierarchy holds, reviewSubmission(id, 'rejected')
\* of any pending submission returns normally and leaves it rejected
C37_PendingCanBeRejected ==
    \A s \in Pending :
       ENABLED (/\ reviewSubmission(s.id, "rejected")
                /\ last'.result = "ok"
                /\ \E t \in submissions' : t.id = s.id /\ t.status = "rejected")

\* a 'new' submission whose domain is gone and a 'modify' submission whose pattern
\* is gone were both rejected
C37_Witness ==
    /\ last = Called("reviewSubmission", "ok")
    /\ domains = {}
    /\ \E s \in submissions : s.type = "new" /\ s.status = "rejected"
    /\ \E s \in submissions :
          s.type = "modify" /\ s.status = "rejected" /\ s.target_pattern_id = Null

\* C38: an acceptance that throws leaves the submission pending and the hierarchy as
\* it was; and when the caller that saw it throw accepts the same 'new' submission
\* again once its category exists, the call succeeds, adds exactly one pattern with the
\* submission's texts in that category, and sets the submission accepted
C38_ThrownAcceptanceCanBeRetried ==
    [][\A s \in Pending :
          /\ (/\ last'.op = "reviewSubmission"
              /\ last'.result \in AcceptanceErrors
              /\ review(s.id, "accepted"))
             => /\ s \in submissions'
                /\ UNCHANGED <<hierarchy, seq>>
          /\ (/\ last'.op = "reviewSubmission"
              /\ s.id \in thrown
              /\ s.type = "new" /\ s.domain_slug # Null /\ s.category_slug # Null
              /\ categoryBySlugs(s.domain_slug[1], s.category_slug[1]) # {}
              /\ review(s.id, "accepted"))
             => /\ last'.result = "ok"
                /\ UNCHANGED <<domains, categories>>
                /\ patterns \subseteq patterns'
                /\ Cardinality(patterns' \ patterns) = 1
                /\ \A p \in patterns' \ patterns :
                      /\ \E c \in categoryBySlugs(s.domain_slug[1], s.category_slug[1]) :
                            p.category_id = c.id
                      /\ CarriesContent(p, s)
                      /\ \A q \in patterns : q.id # p.id
                /\ submissions' = (submissions \ {s}) \cup {ReviewedAs(s, "accepted")}]_vars

\* a submission whose acceptance had thrown was accepted on a later call, and the
\* hierarchy holds the one pattern it made
C38_Witness ==
    /\ last = Called("reviewSubmission", "ok")
    /\ \E s \in submissions :
          /\ s.id \in thrown /\ s.type = "new" /\ s.status = "accepted"
          /\ Cardinality({p \in patterns : CarriesContent(p, s)}) = 1

====
